---------------------------- MODULE Spec2Model ----------------------------
(***************************************************************************)
(* A model of notebooks/work-in-progress/timeseries-comparison.ipynb.      *)
(*                                                                         *)
(* The notebook is a sequence of code cells run against one kernel.  The   *)
(* state is the kernel's namespace (the DataFrames the cells bind), the    *)
(* value a cell displays, and the position in the list of cells being run. *)
(* A DataFrame is a bag of rows; a row is a record whose fields are the     *)
(* columns (index levels included).  Row order is kept only where a cell    *)
(* produces it (sort_values, head).                                         *)
(*                                                                         *)
(* Numbers.  A float column holds NaN or a number: [na, v].  The quotient   *)
(* of two sums is kept exactly, as IEEE-754 division classifies it:         *)
(* [cls, n, d] with cls in "finite" (n/d, d > 0), "inf", "-inf", "nan".     *)
(* Rounding of the quotient is not modelled.                                *)
(*                                                                         *)
(* Grouping keys are plain (non-categorical) columns: a groupby yields the  *)
(* key combinations that occur in the rows.                                 *)
(***************************************************************************)
EXTENDS Integers, Sequences, FiniteSets, Bags, TLC

VARIABLES
    plan,            \* the cells the analyst runs, in notebook order
    pc,              \* index in plan of the next cell to run
    raised,          \* the exception the last cell raised, "" when none
    eia930_sub,      \* out_eia930__hourly_subregion_demand
    eia930_ops,      \* core_eia930__hourly_operations
    eia930_ba,       \* out_eia930__hourly_operations
    bad_data,        \* imputation rate per group, sorted (a sequence)
    eia930_bas,
    eia930_sub_agg,
    eia930_both,
    ba_totals,
    eia930_bymonth,
    out_bymonth,     \* what the by-month cells display (a sequence)
    new_imputed,
    old_imputed,
    ferc714_both

vars == <<plan, pc, raised, eia930_sub, eia930_ops, eia930_ba, bad_data,
          eia930_bas, eia930_sub_agg, eia930_both, ba_totals, eia930_bymonth,
          out_bymonth, new_imputed, old_imputed, ferc714_both>>

-----------------------------------------------------------------------------
(* Bounds of the model. *)

\* Rows per table the data supplier returns.
MaxRows == 2

-----------------------------------------------------------------------------
(* Values. *)

\* A missing string (None / <NA>) and a missing timestamp (NaT).
NA == "<NA>"
NaT == << >>

\* A float cell: NaN or a number.
NaN == [na |-> TRUE, v |-> 0]
Num(n) == [na |-> FALSE, v |-> n]

\* The null of each column, by column type.
NullOf ==
    [balancing_authority_code_eia |-> NA,
     balancing_authority_subregion_code_eia |-> NA,
     datetime_utc |-> NaT]

\* Series.dt.to_period("M"): a timestamp <<year, month, hour>> to <<year, month>>.
to_period_M(t) == IF t = NaT THEN NaT ELSE <<t[1], t[2]>>

\* Series.dt.year.
dt_year(t) == IF t = NaT THEN NaT ELSE <<t[1]>>

\* float / float as numpy computes it: x/0 is inf, -inf or nan, never an error.
Division(x, y) ==
    IF y > 0 THEN [cls |-> "finite", n |-> x, d |-> y]
    ELSE IF y < 0 THEN [cls |-> "finite", n |-> -x, d |-> -y]
    ELSE IF x > 0 THEN [cls |-> "inf", n |-> 1, d |-> 0]
    ELSE IF x < 0 THEN [cls |-> "-inf", n |-> -1, d |-> 0]
    ELSE [cls |-> "nan", n |-> 0, d |-> 0]

\* x < y on non-NaN floats (cross-multiplication orders the infinities too:
\* -1/0 < n/d < 1/0).
FloatLess(x, y) ==
    IF x.d = 0 /\ y.d = 0 THEN x.n < y.n
    ELSE IF x.d = 0 THEN x.n < 0
    ELSE IF y.d = 0 THEN y.n > 0
    ELSE x.n * y.d < y.n * x.d

-----------------------------------------------------------------------------
(* DataFrames as bags of rows. *)

Range(s) == {s[i] : i \in DOMAIN s}

SeqToBag(s) == [r \in Range(s) |-> Cardinality({i \in DOMAIN s : s[i] = r})]

\* Every table of at most n rows over the row domain D.
Tables(D, n) == {SeqToBag(s) : s \in UNION {[1..k -> D] : k \in 0..n}}

RECURSIVE SumFn(_)
SumFn(w) ==
    IF DOMAIN w = {} THEN 0
    ELSE LET x == CHOOSE x \in DOMAIN w : TRUE
         IN  w[x] + SumFn([y \in DOMAIN w \ {x} |-> w[y]])

\* Series.sum() with skipna: NaN contributes nothing, an all-NaN or empty
\* column sums to 0.
ColumnSum(df, col) ==
    SumFn([r \in BagToSet(df) |-> df[r] * (IF r[col].na THEN 0 ELSE r[col].v)])

\* The rows of df whose key columns `by` equal those of key.
RowsOfGroup(df, by, key) ==
    LET rows == {r \in BagToSet(df) : \A f \in by : r[f] = key[f]}
    IN  [r \in rows |-> df[r]]

\* DataFrame.groupby(by)[cols].sum(): one row per key combination that
\* occurs; rows with a null key are dropped (dropna=True, the default).
groupby_sum(df, by, cols) ==
    LET kept == {r \in BagToSet(df) : \A f \in by : r[f] # NullOf[f]}
        keys == {[f \in by |-> r[f]] : r \in kept}
    IN  SetToBag({key @@ [c \in cols |-> Num(ColumnSum(RowsOfGroup(df, by, key), c))]
                  : key \in keys})

\* pd.merge(left, right, on=on, how=how), one value column a side, the
\* result's value columns named lout and rout.  Every left row pairs with
\* every right row of the same key; how="outer" keeps the unpaired rows
\* with NaN on the other side.
merge(left, right, on, how, lval, rval, lout, rout) ==
    LET SameKey(l, r) == \A f \in on : l[f] = r[f]
        Row(key, a, b) == [f \in on |-> key[f]] @@ (lout :> a) @@ (rout :> b)
        pairs == {p \in BagToSet(left) \X BagToSet(right) : SameKey(p[1], p[2])}
        matched ==
            BagOfAll(LAMBDA p : Row(p[1], p[1][lval], p[2][rval]),
                     [p \in pairs |-> left[p[1]] * right[p[2]]])
        leftOnly ==
            BagOfAll(LAMBDA l : Row(l, l[lval], NaN),
                     [l \in {x \in BagToSet(left) :
                                \A r \in BagToSet(right) : ~SameKey(x, r)}
                        |-> left[l]])
        rightOnly ==
            BagOfAll(LAMBDA r : Row(r, NaN, r[rval]),
                     [r \in {x \in BagToSet(right) :
                                \A l \in BagToSet(left) : ~SameKey(l, x)}
                        |-> right[r]])
    IN  IF how = "inner" THEN matched ELSE matched (+) leftOnly (+) rightOnly

\* sort_values that ranks downwards whatever `ascending` says.
sort_values_descending(df, by, ascending) ==
    LET n == BagCardinality(df)
        Ordered(s) ==
            \A i, j \in 1..n :
                i < j =>
                    LET x == s[i][by]
                        y == s[j][by]
                    IN  IF x.cls = "nan" THEN y.cls = "nan"
                        ELSE IF y.cls = "nan" THEN TRUE
                        ELSE ~FloatLess(x, y)
    IN  {s \in [1..n -> BagToSet(df)] : SeqToBag(s) = df /\ Ordered(s)}

\* DataFrame.sort_values(by, ascending): every order the call can return.
\* NaN goes last whatever `ascending` is (na_position="last"); the default
\* quicksort is not stable, so rows that tie may come in any order.
sort_values(df, by, ascending) ==
    LET n == BagCardinality(df)
        Ordered(s) ==
            \A i, j \in 1..n :
                i < j =>
                    LET x == s[i][by]
                        y == s[j][by]
                    IN  IF x.cls = "nan" THEN y.cls = "nan"
                        ELSE IF y.cls = "nan" THEN TRUE
                        ELSE IF ascending THEN ~FloatLess(y, x)
                        ELSE ~FloatLess(x, y)
    IN  {s \in [1..n -> BagToSet(df)] : SeqToBag(s) = df /\ Ordered(s)}

\* DataFrame.head(n) of an ordered frame.
head(s, n) == SubSeq(s, 1, IF n < Len(s) THEN n ELSE Len(s))

-----------------------------------------------------------------------------
(* The kernel: its state before any cell has run, and which cell is next. *)

NoFrame == EmptyBag

Fresh(cells) ==
    /\ plan = cells
    /\ pc = 1
    /\ raised = ""
    /\ eia930_sub = NoFrame /\ eia930_ops = NoFrame /\ eia930_ba = NoFrame
    /\ bad_data = << >>
    /\ eia930_bas = NoFrame /\ eia930_sub_agg = NoFrame /\ eia930_both = NoFrame
    /\ ba_totals = NoFrame /\ eia930_bymonth = NoFrame
    /\ out_bymonth = << >>
    /\ new_imputed = NoFrame /\ old_imputed = NoFrame /\ ferc714_both = NoFrame

\* The cell named `cell` is the next one to run.
AtCell(cell) == pc \in DOMAIN plan /\ plan[pc] = cell

\* The cell ran to its end.
Done == pc' = pc + 1 /\ raised' = "" /\ UNCHANGED plan

-----------------------------------------------------------------------------
(* "Read in remote data": get_asset returns whatever the asset store holds. *)

ReadRemoteData(subRows, opsRows, baRows) ==
    /\ AtCell("read_remote_data")
    /\ eia930_sub' \in Tables(subRows, MaxRows)
    /\ eia930_ops' \in Tables(opsRows, MaxRows)
    /\ eia930_ba' \in Tables(baRows, MaxRows)
    /\ Done
    /\ UNCHANGED <<bad_data, eia930_bas, eia930_sub_agg, eia930_both, ba_totals,
                   eia930_bymonth, out_bymonth, new_imputed, old_imputed,
                   ferc714_both>>

-----------------------------------------------------------------------------
(* "Is subregion demand data consistent with BA-level reporting?" *)

BA_KEY == {"balancing_authority_code_eia", "datetime_utc"}

\* .loc[:, [...]].set_index([...]): the three columns, the first two as index.
set_index_bas(ops) ==
    BagOfAll(LAMBDA r : [balancing_authority_code_eia |-> r.balancing_authority_code_eia,
                         datetime_utc |-> r.datetime_utc,
                         demand_reported_mwh |-> r.demand_reported_mwh],
             ops)

Cell_eia930_bas ==
    /\ AtCell("eia930_bas")
    /\ eia930_bas' = set_index_bas(eia930_ops)
    /\ Done
    /\ UNCHANGED <<eia930_sub, eia930_ops, eia930_ba, bad_data, eia930_sub_agg,
                   eia930_both, ba_totals, eia930_bymonth, out_bymonth,
                   new_imputed, old_imputed, ferc714_both>>

\* groupby(["balancing_authority_code_eia", "datetime_utc"])
\*     ["demand_reported_mwh"].sum().to_frame()
aggregate_subregions(sub) == groupby_sum(sub, BA_KEY, {"demand_reported_mwh"})

Cell_eia930_sub_agg ==
    /\ AtCell("eia930_sub_agg")
    /\ eia930_sub_agg' = aggregate_subregions(eia930_sub)
    /\ Done
    /\ UNCHANGED <<eia930_sub, eia930_ops, eia930_ba, bad_data, eia930_bas,
                   eia930_both, ba_totals, eia930_bymonth, out_bymonth,
                   new_imputed, old_imputed, ferc714_both>>

\* The merge with how="outer" in place of how="inner".
merge_both_outer(bas, sub_agg) ==
    merge(bas, sub_agg, BA_KEY, "outer", "demand_reported_mwh", "demand_reported_mwh",
          "demand_reported_mwh_ba", "demand_reported_mwh_sub")

\* pd.merge(eia930_bas, eia930_sub_agg, left_index=True, right_index=True,
\*          how="inner", suffixes=("_ba", "_sub"))
merge_both(bas, sub_agg) ==
    merge(bas, sub_agg, BA_KEY, "inner", "demand_reported_mwh", "demand_reported_mwh",
          "demand_reported_mwh_ba", "demand_reported_mwh_sub")

Cell_eia930_both ==
    /\ AtCell("eia930_both")
    /\ eia930_both' = merge_both(eia930_bas, eia930_sub_agg)
    /\ Done
    /\ UNCHANGED <<eia930_sub, eia930_ops, eia930_ba, bad_data, eia930_bas,
                   eia930_sub_agg, ba_totals, eia930_bymonth, out_bymonth,
                   new_imputed, old_imputed, ferc714_both>>

BOTH_COLS == {"demand_reported_mwh_ba", "demand_reported_mwh_sub"}

\* The difference divided by the subregion sum instead of the BA sum.
assign_diff_over_sub(df, col) ==
    BagOfAll(LAMBDA r : r @@ (col :> Division(r.demand_reported_mwh_ba.v
                                                - r.demand_reported_mwh_sub.v,
                                              r.demand_reported_mwh_sub.v)),
             df)

\* df[col] = (df["demand_reported_mwh_ba"] - df["demand_reported_mwh_sub"])
\*           / df["demand_reported_mwh_ba"]
assign_diff(df, col) ==
    BagOfAll(LAMBDA r : r @@ (col :> Division(r.demand_reported_mwh_ba.v
                                                - r.demand_reported_mwh_sub.v,
                                              r.demand_reported_mwh_ba.v)),
             df)

\* eia930_both.groupby("balancing_authority_code_eia").sum(), then pct_diff.
bulk_proportions(both) ==
    assign_diff(groupby_sum(both, {"balancing_authority_code_eia"}, BOTH_COLS),
                "pct_diff")

Cell_ba_totals ==
    /\ AtCell("ba_totals")
    /\ ba_totals' = bulk_proportions(eia930_both)
    /\ Done
    /\ UNCHANGED <<eia930_sub, eia930_ops, eia930_ba, bad_data, eia930_bas,
                   eia930_sub_agg, eia930_both, eia930_bymonth, out_bymonth,
                   new_imputed, old_imputed, ferc714_both>>

\* reset_index(), then groupby([ba, datetime_utc.dt.to_period("M")])
\*     [[..._ba, ..._sub]].sum(), then frac_diff.
by_month(both) ==
    assign_diff(
        groupby_sum(BagOfAll(LAMBDA r : [r EXCEPT !.datetime_utc = to_period_M(@)],
                             both),
                    BA_KEY, BOTH_COLS),
        "frac_diff")

\* The number of rows the by-month cells show.
HEAD_ROWS == 25

\* ... eia930_bymonth.sort_values("frac_diff", ascending=False).head(25)
Cell_eia930_bymonth ==
    /\ AtCell("eia930_bymonth")
    /\ eia930_bymonth' = by_month(eia930_both)
    /\ \E s \in sort_values(eia930_bymonth', "frac_diff", FALSE) :
           out_bymonth' = head(s, HEAD_ROWS)
    /\ Done
    /\ UNCHANGED <<eia930_sub, eia930_ops, eia930_ba, bad_data, eia930_bas,
                   eia930_sub_agg, eia930_both, ba_totals, new_imputed,
                   old_imputed, ferc714_both>>

\* Drop the first index level after selecting one of its keys.
droplevel_ba(r) ==
    [f \in DOMAIN r \ {"balancing_authority_code_eia"} |-> r[f]]

\* Series/DataFrame .loc[key] on the first index level of an ordered frame:
\* the rows of that key, in the frame's order, without the level.
RECURSIVE loc(_, _)
loc(s, key) ==
    IF s = << >> THEN << >>
    ELSE IF Head(s).balancing_authority_code_eia = key
         THEN <<droplevel_ba(Head(s))>> \o loc(Tail(s), key)
         ELSE loc(Tail(s), key)

\* eia930_bymonth.sort_values("frac_diff", ascending=False).loc["ISNE"].head(25)
\* A key that is not in the index raises KeyError.
Cell_eia930_bymonth_isne ==
    /\ AtCell("eia930_bymonth_isne")
    /\ \E s \in sort_values(eia930_bymonth, "frac_diff", FALSE) :
           IF loc(s, "ISNE") = << >>
           THEN /\ raised' = "KeyError"
                /\ out_bymonth' = out_bymonth
           ELSE /\ raised' = ""
                /\ out_bymonth' = head(loc(s, "ISNE"), HEAD_ROWS)
    /\ pc' = pc + 1
    /\ UNCHANGED <<plan, eia930_sub, eia930_ops, eia930_ba, bad_data, eia930_bas,
                   eia930_sub_agg, eia930_both, ba_totals, eia930_bymonth,
                   new_imputed, old_imputed, ferc714_both>>

-----------------------------------------------------------------------------
(* "Find some imputed data" and "Repeat with BA data". *)

IMPUTATION_CODE == "demand_imputed_pudl_mwh_imputation_code"

\* The share of null codes instead: lambda x: x.isnull().mean().
isnull_mean(group, col) ==
    Division(BagCardinality([r \in {x \in BagToSet(group) : x[col] = NA} |-> group[r]]),
             BagCardinality(group))

\* lambda x: x.notnull().mean() on the rows of one group.
notnull_mean(group, col) ==
    Division(BagCardinality([r \in {x \in BagToSet(group) : x[col] # NA} |-> group[r]]),
             BagCardinality(group))

\* df.groupby(by, observed=True)[col].apply(lambda x: x.notnull().mean()):
\* one entry per key combination that occurs; rows with a null key are
\* dropped (dropna=True, the default).
groupby_notnull_mean(df, by, col) ==
    LET kept == {r \in BagToSet(df) : \A f \in by : r[f] # NullOf[f]}
        keys == {[f \in by |-> r[f]] : r \in kept}
    IN  SetToBag({key @@ (col :> notnull_mean(RowsOfGroup(df, by, key), col))
                  : key \in keys})

\* The grouper eia930_xxx["datetime_utc"].dt.year in place of the timestamp.
with_year(df) == BagOfAll(LAMBDA r : [r EXCEPT !.datetime_utc = dt_year(@)], df)

SUB_KEY ==
    {"balancing_authority_code_eia", "balancing_authority_subregion_code_eia",
     "datetime_utc"}

\* bad_data = eia930_sub.groupby([ba, subregion, year], observed=True)[code]
\*     .apply(lambda x: x.notnull().mean()).sort_values(ascending=False)
Cell_bad_data_sub ==
    /\ AtCell("bad_data_sub")
    /\ bad_data' \in sort_values(groupby_notnull_mean(with_year(eia930_sub), SUB_KEY,
                                                      IMPUTATION_CODE),
                                 IMPUTATION_CODE, FALSE)
    /\ Done
    /\ UNCHANGED <<eia930_sub, eia930_ops, eia930_ba, eia930_bas, eia930_sub_agg,
                   eia930_both, ba_totals, eia930_bymonth, out_bymonth,
                   new_imputed, old_imputed, ferc714_both>>

\* bad_data = eia930_ba.groupby([ba, year], observed=True)[code]
\*     .apply(lambda x: x.notnull().mean()).sort_values(ascending=False)
Cell_bad_data_ba ==
    /\ AtCell("bad_data_ba")
    /\ bad_data' \in sort_values(groupby_notnull_mean(with_year(eia930_ba), BA_KEY,
                                                      IMPUTATION_CODE),
                                 IMPUTATION_CODE, FALSE)
    /\ Done
    /\ UNCHANGED <<eia930_sub, eia930_ops, eia930_ba, eia930_bas, eia930_sub_agg,
                   eia930_both, ba_totals, eia930_bymonth, out_bymonth,
                   new_imputed, old_imputed, ferc714_both>>

-----------------------------------------------------------------------------
(* The cells that fail: the read without PUDL, and `assert False`. *)

\* get_asset is defined inside `try: import pudl ... except ImportError`: in
\* an environment without PUDL the name is never bound and the cell that
\* reads the remote data raises NameError, binding nothing.  The cell is
\* still the next one to run.
GetAssetUndefined ==
    /\ AtCell("read_remote_data")
    /\ raised' = "NameError"
    /\ UNCHANGED <<plan, pc, eia930_sub, eia930_ops, eia930_ba, bad_data,
                   eia930_bas, eia930_sub_agg, eia930_both, ba_totals,
                   eia930_bymonth, out_bymonth, new_imputed, old_imputed,
                   ferc714_both>>

\* The assertion compiled away: the cell does nothing and ends normally.
Cell_assert_stripped ==
    /\ AtCell("assert_false")
    /\ Done
    /\ UNCHANGED <<eia930_sub, eia930_ops, eia930_ba, bad_data, eia930_bas,
                   eia930_sub_agg, eia930_both, ba_totals, eia930_bymonth,
                   out_bymonth, new_imputed, old_imputed, ferc714_both>>

\* assert False: the cell raises AssertionError and binds nothing.
Cell_assert_false ==
    /\ AtCell("assert_false")
    /\ raised' = "AssertionError"
    /\ pc' = pc + 1
    /\ UNCHANGED <<plan, eia930_sub, eia930_ops, eia930_ba, bad_data, eia930_bas,
                   eia930_sub_agg, eia930_both, ba_totals, eia930_bymonth,
                   out_bymonth, new_imputed, old_imputed, ferc714_both>>

-----------------------------------------------------------------------------
(* "Compare old and new FERC-714 Imputations". *)

ReadFerc714(newRows, oldRows) ==
    /\ AtCell("read_ferc714")
    /\ new_imputed' \in Tables(newRows, MaxRows)
    /\ old_imputed' \in Tables(oldRows, MaxRows)
    /\ Done
    /\ UNCHANGED <<eia930_sub, eia930_ops, eia930_ba, bad_data, eia930_bas,
                   eia930_sub_agg, eia930_both, ba_totals, eia930_bymonth,
                   out_bymonth, ferc714_both>>

FERC_KEY == {"respondent_id_ferc714", "datetime_utc"}

\* pd.merge(left=new_imputed.loc[:, [...]], right=old_imputed.loc[:, [...]],
\*          on=["respondent_id_ferc714", "datetime_utc"], how="outer")
\*     .rename(columns={...: "demand_mwh_new", ...: "demand_mwh_old"})
merge_ferc714(new, old) ==
    merge(new, old, FERC_KEY, "outer", "demand_imputed_pudl_mwh", "demand_mwh",
          "demand_mwh_new", "demand_mwh_old")

Cell_ferc714_both ==
    /\ AtCell("ferc714_both")
    /\ ferc714_both' = merge_ferc714(new_imputed, old_imputed)
    /\ Done
    /\ UNCHANGED <<eia930_sub, eia930_ops, eia930_ba, bad_data, eia930_bas,
                   eia930_sub_agg, eia930_both, ba_totals, eia930_bymonth,
                   out_bymonth, new_imputed, old_imputed>>

-----------------------------------------------------------------------------
(* The data each section is checked on. *)

BAs == {"ISNE", "PJM"}

Subregions == {"4001", "4002"}

\* <<year, month, hour of the month>>: two hours of one month, one of the next.
Hours == {<<2019, 1, 1>>, <<2019, 1, 2>>, <<2019, 2, 1>>}

\* One hour in each of two years.
YearHours == {<<2019, 1, 1>>, <<2020, 1, 1>>}

\* The (BA, hour) pairs of the consistency data: ISNE over three hours, PJM
\* for one.
ConsistencyKeys == {<<"ISNE", h>> : h \in Hours} \cup {<<"PJM", <<2019, 1, 1>>>>}

ConsistencyOpsRows ==
    {[balancing_authority_code_eia |-> k[1],
      datetime_utc |-> k[2],
      demand_reported_mwh |-> v] : k \in ConsistencyKeys, v \in {NaN, Num(0), Num(1)}}

\* The subregion rows, and one row whose BA code is missing.
ConsistencySubRows ==
    {[balancing_authority_code_eia |-> k[1],
      balancing_authority_subregion_code_eia |-> "4001",
      datetime_utc |-> k[2],
      demand_reported_mwh |-> v,
      demand_imputed_pudl_mwh_imputation_code |-> NA]
        : k \in ConsistencyKeys, v \in {NaN, Num(-1), Num(1)}}
    \cup
    {[balancing_authority_code_eia |-> NA,
      balancing_authority_subregion_code_eia |-> "4001",
      datetime_utc |-> <<2019, 1, 1>>,
      demand_reported_mwh |-> Num(1),
      demand_imputed_pudl_mwh_imputation_code |-> NA]}

ImputationSubRows ==
    [balancing_authority_code_eia : BAs,
     balancing_authority_subregion_code_eia : Subregions,
     datetime_utc : YearHours,
     demand_reported_mwh : {NaN},
     demand_imputed_pudl_mwh_imputation_code : {NA, "simulated"}]

ImputationBaRows ==
    [balancing_authority_code_eia : BAs,
     datetime_utc : YearHours,
     demand_imputed_pudl_mwh_imputation_code : {NA, "simulated"}]

Respondents == {101, 102}

NewImputedRows ==
    [respondent_id_ferc714 : Respondents,
     datetime_utc : {<<2019, 1, 1>>, <<2019, 1, 2>>},
     demand_imputed_pudl_mwh : {NaN, Num(0), Num(1)}]

OldImputedRows ==
    [respondent_id_ferc714 : Respondents,
     datetime_utc : {<<2019, 1, 1>>, <<2019, 1, 2>>},
     demand_mwh : {NaN, Num(0), Num(1)}]

-----------------------------------------------------------------------------
(* The runs. *)

ConsistencyCells ==
    <<"read_remote_data", "eia930_bas", "eia930_sub_agg", "eia930_both",
      "ba_totals", "eia930_bymonth", "eia930_bymonth_isne">>

ReadConsistencyData == ReadRemoteData(ConsistencySubRows, ConsistencyOpsRows, {})

NextConsistency ==
    \/ ReadConsistencyData
    \/ Cell_eia930_bas
    \/ Cell_eia930_sub_agg
    \/ Cell_eia930_both
    \/ Cell_ba_totals
    \/ Cell_eia930_bymonth
    \/ Cell_eia930_bymonth_isne

\* The analyst runs the cells of the BA-versus-subregion section.
SpecConsistency == Fresh(ConsistencyCells) /\ [][NextConsistency]_vars

ImputationCells == <<"read_remote_data", "bad_data_sub", "bad_data_ba">>

ReadImputationData == ReadRemoteData(ImputationSubRows, {}, ImputationBaRows)

NextImputation ==
    \/ ReadImputationData
    \/ Cell_bad_data_sub
    \/ Cell_bad_data_ba

\* The analyst runs the cells that rank the groups by imputation rate.
SpecImputation == Fresh(ImputationCells) /\ [][NextImputation]_vars

Ferc714Cells == <<"read_ferc714", "ferc714_both">>

ReadFerc714Data == ReadFerc714(NewImputedRows, OldImputedRows)

NextFerc714 ==
    \/ ReadFerc714Data
    \/ Cell_ferc714_both

\* The analyst runs the cells of the FERC-714 comparison.
SpecFerc714 == Fresh(Ferc714Cells) /\ [][NextFerc714]_vars

\* The data of a run of the whole notebook: one BA, one subregion.
NotebookSubRows ==
    [balancing_authority_code_eia : {"ISNE"},
     balancing_authority_subregion_code_eia : {"4001"},
     datetime_utc : {<<2019, 1, 1>>},
     demand_reported_mwh : {Num(1)},
     demand_imputed_pudl_mwh_imputation_code : {NA, "simulated"}]

NotebookOpsRows ==
    [balancing_authority_code_eia : {"ISNE"},
     datetime_utc : {<<2019, 1, 1>>},
     demand_reported_mwh : {Num(0), Num(1)}]

NotebookBaRows ==
    [balancing_authority_code_eia : {"ISNE"},
     datetime_utc : YearHours,
     demand_imputed_pudl_mwh_imputation_code : {NA, "simulated"}]

NotebookNewRows ==
    [respondent_id_ferc714 : {101},
     datetime_utc : {<<2019, 1, 1>>},
     demand_imputed_pudl_mwh : {Num(1)}]

NotebookOldRows ==
    [respondent_id_ferc714 : {101},
     datetime_utc : {<<2019, 1, 1>>},
     demand_mwh : {NaN, Num(1)}]

\* Run All: every cell that binds or ranks something, in notebook order.
RunAllCells ==
    <<"read_remote_data", "bad_data_sub", "bad_data_ba", "assert_false",
      "eia930_bas", "eia930_sub_agg", "eia930_both", "ba_totals",
      "eia930_bymonth", "eia930_bymonth_isne", "read_ferc714", "ferc714_both">>

\* The same cells run one by one, the analyst stepping over the assertion.
ByHandCells == SelectSeq(RunAllCells, LAMBDA cell : cell # "assert_false")

\* Run All stops at the first cell that raises; by hand the analyst goes on.
Stopped == plan = RunAllCells /\ raised # ""

ReadNotebookData == ReadRemoteData(NotebookSubRows, NotebookOpsRows, NotebookBaRows)

ReadNotebookFerc714 == ReadFerc714(NotebookNewRows, NotebookOldRows)

NextNotebook ==
    \/ ~Stopped /\ GetAssetUndefined
    \/ ~Stopped /\ ReadNotebookData
    \/ ~Stopped /\ Cell_bad_data_sub
    \/ ~Stopped /\ Cell_bad_data_ba
    \/ ~Stopped /\ Cell_assert_false
    \/ ~Stopped /\ Cell_eia930_bas
    \/ ~Stopped /\ Cell_eia930_sub_agg
    \/ ~Stopped /\ Cell_eia930_both
    \/ ~Stopped /\ Cell_ba_totals
    \/ ~Stopped /\ Cell_eia930_bymonth
    \/ ~Stopped /\ Cell_eia930_bymonth_isne
    \/ ~Stopped /\ ReadNotebookFerc714
    \/ ~Stopped /\ Cell_ferc714_both

\* The notebook run from a fresh kernel, by Run All or by hand.
SpecNotebook ==
    /\ Fresh(RunAllCells) \/ Fresh(ByHandCells)
    /\ [][NextNotebook]_vars

-----------------------------------------------------------------------------
(* Properties. *)

\* The cell named `cell` has run.
Ran(cell) == \E i \in 1..(pc - 1) : i \in DOMAIN plan /\ plan[i] = cell

SumA(r) == r.demand_reported_mwh_ba.v
SumB(r) == r.demand_reported_mwh_sub.v

\* C1: in ba_totals and in eia930_bymonth the fractional difference
\* (sumA - sumB)/sumA is NaN exactly when sumA is zero, whatever sumB is.
C1_NaNIffZeroDenominator ==
    /\ \A r \in BagToSet(ba_totals) : (r.pct_diff.cls = "nan") <=> (SumA(r) = 0)
    /\ \A r \in BagToSet(eia930_bymonth) : (r.frac_diff.cls = "nan") <=> (SumA(r) = 0)

\* C2: every row of the inner merge has its (BA, timestamp) in both merged
\* tables, and so in both loaded tables; a pair in one table only gives no row.
C2_InnerMergeKeysInBoth ==
    \A r \in BagToSet(eia930_both) :
        /\ \E a \in BagToSet(eia930_bas) : \A f \in BA_KEY : a[f] = r[f]
        /\ \E b \in BagToSet(eia930_sub_agg) : \A f \in BA_KEY : b[f] = r[f]
        /\ \E a \in BagToSet(eia930_ops) : \A f \in BA_KEY : a[f] = r[f]
        /\ \E b \in BagToSet(eia930_sub) : \A f \in BA_KEY : b[f] = r[f]

\* The merge produced rows while each side also held a pair the other lacks.
C2_Witness ==
    /\ Ran("eia930_both")
    /\ eia930_both # EmptyBag
    /\ \E a \in BagToSet(eia930_bas) :
           \A b \in BagToSet(eia930_sub_agg) : \E f \in BA_KEY : a[f] # b[f]
    /\ \E b \in BagToSet(eia930_sub_agg) :
           \A a \in BagToSet(eia930_bas) : \E f \in BA_KEY : a[f] # b[f]

\* The key columns `on` of a row.
KeyOf(r, on) == [f \in on |-> r[f]]

\* The rows of df with the key `key` on the columns `on`, counted.
CountKey(df, on, key) == BagCardinality(RowsOfGroup(df, on, key))

\* C3: the outer merge holds every (respondent, timestamp) pair of either
\* table exactly once, also when a table holds several rows for the pair, and
\* the side that lacks the pair holds NaN, not a number.
C3_OuterMergeEachPairOnce ==
    Ran("ferc714_both") =>
        LET keys == {KeyOf(r, FERC_KEY) : r \in BagToSet(new_imputed) \cup BagToSet(old_imputed)}
        IN  /\ \A r \in BagToSet(ferc714_both) : KeyOf(r, FERC_KEY) \in keys
            /\ \A k \in keys :
                   /\ CountKey(ferc714_both, FERC_KEY, k) = 1
                   /\ CountKey(new_imputed, FERC_KEY, k) = 0 =>
                          \A r \in BagToSet(ferc714_both) :
                              KeyOf(r, FERC_KEY) = k => r.demand_mwh_new = NaN
                   /\ CountKey(old_imputed, FERC_KEY, k) = 0 =>
                          \A r \in BagToSet(ferc714_both) :
                              KeyOf(r, FERC_KEY) = k => r.demand_mwh_old = NaN

\* C4: the grouped sums add up to the sum of the column over all rows of the
\* grouped table (NaN counting as nothing): no row is lost or counted twice.
C4_GroupedSumsConserveTotal ==
    /\ Ran("eia930_sub_agg") =>
           ColumnSum(eia930_sub_agg, "demand_reported_mwh")
               = ColumnSum(eia930_sub, "demand_reported_mwh")
    /\ Ran("eia930_bymonth") =>
           \A c \in BOTH_COLS : ColumnSum(eia930_bymonth, c) = ColumnSum(eia930_both, c)

\* Exact arithmetic on quotients, for the relations the properties state.
FloatNeg(x) == Division(-x.n, x.d)
FloatOne == Division(1, 1)
FloatAdd(x, y) == Division(x.n * y.d + y.n * x.d, x.d * y.d)
FloatDiv(x, y) == Division(x.n * y.d, x.d * y.n)
FloatEq(x, y) == x.cls = y.cls /\ x.cls # "nan" /\ x.n * y.d = y.n * x.d
Finite(x) == x.cls = "finite"

\* The aligned table with the two series swapped.
Swap(both) ==
    BagOfAll(LAMBDA r : [r EXCEPT !.demand_reported_mwh_ba = r.demand_reported_mwh_sub,
                                  !.demand_reported_mwh_sub = r.demand_reported_mwh_ba],
             both)

\* The record of df for the group of r, on the key columns `on`.
Partner(df, on, r) == CHOOSE x \in BagToSet(df) : KeyOf(x, on) = KeyOf(r, on)

\* The records of `swapped` are those of `df`, group for group.
SameGroups(df, swapped, on) ==
    /\ {KeyOf(x, on) : x \in BagToSet(swapped)} = {KeyOf(r, on) : r \in BagToSet(df)}
    /\ BagCardinality(swapped) = BagCardinality(df)

\* C5, as stated: swapping the series negates the absolute difference, turns a
\* defined fractional difference d into -d / (1 + d), and keeps NaN NaN.
SwapAsStated(df, swapped, on, col) ==
    /\ SameGroups(df, swapped, on)
    /\ \A r \in BagToSet(df) :
           LET q == Partner(swapped, on, r)
               d == r[col]
           IN  /\ SumA(q) - SumB(q) = -(SumA(r) - SumB(r))
               /\ Finite(d) => FloatEq(q[col], FloatDiv(FloatNeg(d), FloatAdd(FloatOne, d)))
               /\ d.cls = "nan" => q[col].cls = "nan"

C5_SwapAsStated ==
    /\ Ran("ba_totals") =>
           SwapAsStated(ba_totals, bulk_proportions(Swap(eia930_both)),
                        {"balancing_authority_code_eia"}, "pct_diff")
    /\ Ran("eia930_bymonth") =>
           SwapAsStated(eia930_bymonth, by_month(Swap(eia930_both)), BA_KEY, "frac_diff")

\* C5, amended: swapping the series negates the absolute difference and
\* turns a finite fractional difference d other than 1 into -d / (1 - d); at
\* d = 1 (sumB = 0) the swapped value is an infinity; an infinite d (sumA = 0,
\* sumB nonzero) becomes 1; NaN stays NaN.
SwapAmended(df, swapped, on, col) ==
    /\ SameGroups(df, swapped, on)
    /\ \A r \in BagToSet(df) :
           LET q == Partner(swapped, on, r)
               d == r[col]
           IN  /\ SumA(q) - SumB(q) = -(SumA(r) - SumB(r))
               /\ Finite(d) /\ ~FloatEq(d, FloatOne) =>
                      /\ Finite(q[col])
                      /\ FloatEq(q[col],
                                 FloatDiv(FloatNeg(d), FloatAdd(FloatOne, FloatNeg(d))))
               /\ FloatEq(d, FloatOne) => q[col].cls \in {"inf", "-inf"}
               /\ d.cls \in {"inf", "-inf"} => FloatEq(q[col], FloatOne)
               /\ d.cls = "nan" => q[col].cls = "nan"

C5_SwapAmended ==
    /\ Ran("ba_totals") =>
           SwapAmended(ba_totals, bulk_proportions(Swap(eia930_both)),
                       {"balancing_authority_code_eia"}, "pct_diff")
    /\ Ran("eia930_bymonth") =>
           SwapAmended(eia930_bymonth, by_month(Swap(eia930_both)), BA_KEY, "frac_diff")

\* Both tables hold a record whose two sums differ and are not zero, and a
\* record whose fractional difference is NaN.
C5_Witness ==
    /\ Ran("eia930_bymonth")
    /\ \E r \in BagToSet(ba_totals) : SumA(r) # SumB(r) /\ SumA(r) # 0 /\ SumB(r) # 0
    /\ \E r \in BagToSet(eia930_bymonth) : SumA(r) # SumB(r) /\ SumA(r) # 0 /\ SumB(r) # 0
    /\ \E r \in BagToSet(eia930_bymonth) : r.frac_diff.cls = "nan"

Reverse(s) == [i \in 1..Len(s) |-> s[Len(s) + 1 - i]]

\* In the ordered frame s no record with a zero denominator comes before a
\* record with a nonzero one.
ZeroDenominatorsLast(s) ==
    \A i, j \in DOMAIN s : SumA(s[i]) = 0 /\ SumA(s[j]) # 0 => j < i

\* C6: ranked by fractional difference, descending (as the by-month cells
\* display it) or ascending, and cut to any number of rows, every record with
\* a zero denominator comes after every record with a nonzero one.
C6_ZeroDenominatorRankedLast ==
    /\ ZeroDenominatorsLast(out_bymonth)
    /\ Ran("eia930_bymonth") =>
           \A asc \in BOOLEAN :
               \A s \in sort_values(eia930_bymonth, "frac_diff", asc) :
                   \A n \in 1..Len(s) : ZeroDenominatorsLast(head(s, n))

NoNaN(df, col) == \A r \in BagToSet(df) : r[col].cls # "nan"

NoTies(df, col) ==
    \A r, q \in BagToSet(df) : r # q => ~FloatEq(r[col], q[col])

\* The rows of the ordered frame s whose column col is not NaN, in order.
NotNaNPart(s, col) == SelectSeq(s, LAMBDA r : r[col].cls # "nan")

\* The column col of the ordered frame s.
Column(s, col) == [i \in 1..Len(s) |-> s[i][col]]

InYearGroup(df, by, key) ==
    {r \in BagToSet(df) : \A f \in by : (IF f = "datetime_utc" THEN dt_year(r[f]) ELSE r[f]) = key[f]}

\* The ranked Series `ranked` gives each group of df that has rows its share
\* of rows with a code, and holds no entry for any other key combination.
RatesOf(ranked, df, by, keys) ==
    \A key \in keys :
        LET rows == InYearGroup(df, by, key)
            size == SumFn([r \in rows |-> df[r]])
            coded == SumFn([r \in {x \in rows : x[IMPUTATION_CODE] # NA} |-> df[r]])
            entries == {i \in DOMAIN ranked : KeyOf(ranked[i], by) = key}
        IN  IF size = 0 THEN entries = {}
            ELSE /\ Cardinality(entries) = 1
                 /\ \A i \in entries :
                        LET rate == ranked[i][IMPUTATION_CODE]
                        IN  /\ Finite(rate)
                            /\ rate.n * size = coded * rate.d
                            /\ 0 <= rate.n /\ rate.n <= rate.d

Years == {dt_year(t) : t \in YearHours}

\* C8: bad_data holds, for every (BA, subregion, year) -- then, for the BA
\* table, every (BA, year) -- with at least one row, the rows with a non-null
\* imputation code over the rows of the group, a number in [0, 1]; a key
\* combination with no row has no entry.
C8_ImputationRate ==
    /\ Ran("bad_data_sub") /\ ~Ran("bad_data_ba") =>
           RatesOf(bad_data, eia930_sub, SUB_KEY,
                   [balancing_authority_code_eia : BAs,
                    balancing_authority_subregion_code_eia : Subregions,
                    datetime_utc : Years])
    /\ Ran("bad_data_ba") =>
           RatesOf(bad_data, eia930_ba, BA_KEY,
                   [balancing_authority_code_eia : BAs, datetime_utc : Years])

\* bad_data ranks one group of two rows, one of them imputed; every other key
\* combination has no row.
C8_Witness ==
    /\ Ran("bad_data_sub") /\ ~Ran("bad_data_ba")
    /\ Len(bad_data) = 1
    /\ bad_data[1][IMPUTATION_CODE] = Division(1, 2)

\* The groups of the aligned table on the key columns `on` (the timestamp
\* taken by its month when bucketed).
GroupsOf(both, on) ==
    {KeyOf(r, on) : r \in BagToSet(BagOfAll(LAMBDA r : [r EXCEPT !.datetime_utc = to_period_M(@)], both))}

\* The aligned rows outside the group `key`.
Without(both, on, key) ==
    LET rows == {r \in BagToSet(both) :
                    KeyOf([r EXCEPT !.datetime_utc = to_period_M(@)], on) # key}
    IN  [r \in rows |-> both[r]]

\* df holds one record for every group of the aligned table; a record with
\* sumA = 0 holds NaN; and the other records are what they would be without
\* the rows of that group.
ZeroDenominatorIsData(df, both, on, col, Discrepancy(_)) ==
    /\ {KeyOf(r, on) : r \in BagToSet(df)} = GroupsOf(both, on)
    /\ BagCardinality(df) = Cardinality(GroupsOf(both, on))
    /\ \A r \in BagToSet(df) :
           SumA(r) = 0 =>
               /\ r[col].cls = "nan"
               /\ Discrepancy(Without(both, on, KeyOf(r, on)))
                      = [x \in BagToSet(df) \ {r} |-> df[x]]

\* C9: a group with sumA = 0 raises nothing: ba_totals and eia930_bymonth hold
\* a record for every group, that group's record holds NaN, and the records of
\* the other groups are as if the group were not in the aligned table.
C9_ZeroDenominatorIsData ==
    /\ Ran("ba_totals") =>
           ZeroDenominatorIsData(ba_totals, eia930_both, {"balancing_authority_code_eia"},
                                 "pct_diff", bulk_proportions)
    /\ Ran("eia930_bymonth") =>
           ZeroDenominatorIsData(eia930_bymonth, eia930_both, BA_KEY, "frac_diff", by_month)

\* C9 without the sentinel: every group has its record, no cell raises, and
\* the records of the other groups are as if the zero-denominator group were
\* not in the aligned table.
C9_OtherGroupsUntouched ==
    LET Holds(df, both, on, Discrepancy(_)) ==
            /\ {KeyOf(r, on) : r \in BagToSet(df)} = GroupsOf(both, on)
            /\ BagCardinality(df) = Cardinality(GroupsOf(both, on))
            /\ \A r \in BagToSet(df) :
                   SumA(r) = 0 =>
                       Discrepancy(Without(both, on, KeyOf(r, on)))
                           = [x \in BagToSet(df) \ {r} |-> df[x]]
    IN  /\ ~Ran("eia930_bymonth_isne") => raised = ""
        /\ Ran("ba_totals") =>
               /\ Holds(ba_totals, eia930_both, {"balancing_authority_code_eia"},
                        bulk_proportions)
        /\ Ran("eia930_bymonth") =>
               Holds(eia930_bymonth, eia930_both, BA_KEY, by_month)

\* The (BA, timestamp) pairs present in both loaded series.
AlignedPairs ==
    {KeyOf(a, BA_KEY) : a \in BagToSet(eia930_ops)}
        \cap {KeyOf(b, BA_KEY) : b \in BagToSet(eia930_sub)}

\* The sum of the reported demand of the loaded table df over the pairs.
DemandOver(df, pairs) ==
    SumFn([p \in pairs |-> ColumnSum(RowsOfGroup(df, BA_KEY, p), "demand_reported_mwh")])

\* df holds one record for each group that has an aligned pair, and its two
\* sums are the sums of the two loaded series over the aligned pairs of the
\* group, each pair counted once; Bucket coarsens the raw timestamp.
SumsOverAlignedPairs(df, on, Bucket(_)) ==
    LET GroupOf(p) == KeyOf([p EXCEPT !.datetime_utc = Bucket(@)], on)
        groups == {GroupOf(p) : p \in AlignedPairs}
    IN  /\ {KeyOf(r, on) : r \in BagToSet(df)} = groups
        /\ BagCardinality(df) = Cardinality(groups)
        /\ \A r \in BagToSet(df) :
               LET pairs == {p \in AlignedPairs : GroupOf(p) = KeyOf(r, on)}
               IN  /\ SumA(r) = DemandOver(eia930_ops, pairs)
                   /\ SumB(r) = DemandOver(eia930_sub, pairs)

Raw(t) == t

\* C10: sumA and sumB of every record of ba_totals (per BA) and of
\* eia930_bymonth (per BA and month) are the sums of the BA series and of the
\* subregion series over the same (BA, timestamp) pairs, those present in both
\* series and falling in the group, each pair counted once in each sum.
C10_SumsOverSameAlignedPairs ==
    /\ Ran("ba_totals") =>
           SumsOverAlignedPairs(ba_totals, {"balancing_authority_code_eia"}, Raw)
    /\ Ran("eia930_bymonth") =>
           SumsOverAlignedPairs(eia930_bymonth, BA_KEY, to_period_M)

\* The place of the assertion in Run All.
AssertAt == CHOOSE i \in DOMAIN RunAllCells : RunAllCells[i] = "assert_false"

\* C11: in a Run All, which stops at the first cell that raises, the
\* `assert False` cell raises whenever it is run, and no cell below it ever
\* runs: none of the BA-versus-subregion section and none of the FERC-714
\* comparison has run and the names they bind are unbound.  When the
\* assertion is run, the cells above it have run in order: the three tables
\* are loaded and bad_data is the ranking of the BA table, the last one bound.
C11_NothingRunsAfterAssertFalse ==
    plan = RunAllCells =>
        /\ pc <= AssertAt + 1
        /\ \A i \in DOMAIN plan : i > AssertAt => ~Ran(plan[i])
        /\ eia930_bas = NoFrame /\ eia930_sub_agg = NoFrame /\ eia930_both = NoFrame
        /\ ba_totals = NoFrame /\ eia930_bymonth = NoFrame /\ out_bymonth = << >>
        /\ new_imputed = NoFrame /\ old_imputed = NoFrame /\ ferc714_both = NoFrame
        /\ Ran("assert_false") =>
               /\ raised = "AssertionError"
               /\ \A i \in 1..(AssertAt - 1) : Ran(plan[i])
               /\ eia930_sub \in Tables(NotebookSubRows, MaxRows)
               /\ eia930_ops \in Tables(NotebookOpsRows, MaxRows)
               /\ eia930_ba \in Tables(NotebookBaRows, MaxRows)
               /\ bad_data \in sort_values(groupby_notnull_mean(with_year(eia930_ba), BA_KEY,
                                                                IMPUTATION_CODE),
                                           IMPUTATION_CODE, FALSE)

\* Run All has run the assertion, after loading tables with rows and ranking
\* the BA table's groups.
C11_Witness ==
    /\ plan = RunAllCells
    /\ Ran("assert_false")
    /\ raised = "AssertionError"
    /\ eia930_sub # EmptyBag /\ eia930_ops # EmptyBag
    /\ Len(bad_data) = 2

=============================================================================
